---- MODULE Spec2Model ----
(***************************************************************************)
(* The typing session of quote_typer: TypingState (src/src/typing.rs), the *)
(* driver loop typing_session, the statistics (src/src/lib.rs) and the     *)
(* terminal set-up/tear-down around them (src/src/main.rs, lib.rs).        *)
(*                                                                         *)
(* Time is counted in ticks: TicksPerSec ticks make one second, so that    *)
(* Duration::as_secs (whole seconds) and Duration::as_secs_f32 (fractions) *)
(* differ.  One key event reads the clock once: the three calls of         *)
(* start_time.elapsed() inside on_key_event are taken at the same tick.    *)
(***************************************************************************)
EXTENDS Integers, Sequences, FiniteSets, TLC

\* const CHARS_TILL_NEXT_QUOTE: usize = 15;
CHARS_TILL_NEXT_QUOTE == 15

\* Clock ticks per second.
TicksPerSec == 2

\* Largest n of MultiQuote(n) that is explored.
MaxCount == 2

\* Largest s of Time(s) that is explored.
MaxSecs == 1

\* Key events are explored while quote_num <= MaxQuoteNum.
MaxQuoteNum == 2

\* The clock is explored up to one tick past the longest time limit.
MaxClock == TicksPerSec * MaxSecs + 1

\* Length of the long first text (more than CHARS_TILL_NEXT_QUOTE characters).
LongLen == 20

\* num_chars as u16 keeps the count modulo 2^16.
U16 == 2 ^ 16

\* Character counts given to align_center: 0..MaxChars, and the same past 2^16.
MaxChars == 25

\* Single cursor steps explored in one direction.
MaxSteps == 4

VARIABLES
    session_type,   \* TypingState.session_type: [kind, x]
    quote_num,      \* TypingState.quote_num
    quote_chars,    \* TypingState.quote_chars (the target buffer)
    typed_chars,    \* TypingState.typed_chars
    control_flow,   \* TypingState.control_flow
    stats,          \* TypingState.stats
    clock,          \* ticks since TypingState.start_time
    next_quote,     \* typing_session's next_quote: 0 = None, i = Some(handle of task i)
    future_quote,   \* the handle taken out of next_quote and being awaited (0 = none)
    tasks,          \* the fetch tasks spawned so far, in spawn order
    pc,             \* where the driver is
    ret,            \* what the last call of on_key_event returned ("None": nothing)
    raw_mode,       \* terminal raw mode is enabled
    alt_screen,     \* the alternate screen is entered
    screen,         \* what the last repaint of the terminal was given
    keyboard,       \* the characters the user may type
    provider,       \* the texts get_quote may return
    sizes,          \* the sizes the user may give the terminal
    term_size,      \* (columns, rows) of the terminal, as terminal::size() reads it
    cursor,         \* a Cursor of src/src/lib.rs: [col, row, num_cols, num_rows]
    origin,         \* the cursor before the first single step
    nfwd,           \* calls of cursor_forward_one since origin
    nback,          \* calls of cursor_back_one since origin
    failed,         \* one of these calls returned Err(())
    last_call       \* the last Cursor method called: [op, arg, ok, before]

\* The typing session.
svars == <<session_type, quote_num, quote_chars, typed_chars, control_flow, stats,
           clock, next_quote, future_quote, tasks, pc, ret, raw_mode, alt_screen,
           screen, keyboard, provider, sizes, term_size>>

\* A Cursor on its own.
cvars == <<cursor, origin, nfwd, nback, failed, last_call>>

vars == <<session_type, quote_num, quote_chars, typed_chars, control_flow, stats,
          clock, next_quote, future_quote, tasks, pc, ret, raw_mode, alt_screen,
          screen, keyboard, provider, sizes, term_size, cursor, origin, nfwd,
          nback, failed, last_call>>

----------------------------------------------------------------------------
(* Values *)

\* enum SessionType
SingleQuote == [kind |-> "SingleQuote", x |-> 0]
MultiQuote(n) == [kind |-> "MultiQuote", x |-> n]
Time(s) == [kind |-> "Time", x |-> s]
Zen == [kind |-> "Zen", x |-> 0]

SessionTypes ==
    {SingleQuote, Zen} \cup {MultiQuote(n) : n \in 1..MaxCount}
                       \cup {Time(s) : s \in 1..MaxSecs}

\* enum ControlFlow
ControlFlow == {"Exit", "Normal", "Finished", "RequestsQuote", "WaitingForQuote"}

\* Option<u32>
None == [some |-> FALSE]
Some(v) == [some |-> TRUE, val |-> v]

\* crossterm KeyEvent: kind (Press, Repeat, Release), code, and whether the
\* modifiers are exactly CONTROL.
KeyEvent(kind, code, ch, ctrl) == [kind |-> kind, code |-> code, ch |-> ch, ctrl |-> ctrl]
KeyKinds == {"Press", "Repeat", "Release"}
CtrlC(kind) == KeyEvent(kind, "Char", "c", TRUE)
CtrlF(kind) == KeyEvent(kind, "Char", "f", TRUE)
KeyEvents(kb) ==
    {KeyEvent(kind, "Char", c, FALSE) : kind \in KeyKinds, c \in kb}
    \cup {CtrlC(kind) : kind \in KeyKinds}
    \cup {CtrlF(kind) : kind \in KeyKinds, c \in kb \cap {"f"}}
    \cup {KeyEvent(kind, code, "", FALSE) : kind \in KeyKinds, code \in {"Backspace", "Enter"}}

Repeated(c, n) == [i \in 1..n |-> c]

Min(a, b) == IF a <= b THEN a ELSE b

----------------------------------------------------------------------------
(* Stats, src/src/lib.rs *)

\* Stats::new
Stats_new(st) ==
    [num_chars_typed |-> 0,
     num_correct |-> 0,
     current_quote |-> 1,
     num_quotes |-> IF st.kind = "MultiQuote" THEN Some(st.x) ELSE None,
     elapsed_time |-> 0]

\* zip(quote_chars, typed_chars).filter(|(q, t)| q == t).count()
num_correct_of(quote, typed) ==
    Cardinality({i \in 1..Min(Len(quote), Len(typed)) : quote[i] = typed[i]})

\* Stats::update
Stats_update(s, quote, typed, current_quote, elapsed_time) ==
    [s EXCEPT !.num_correct = num_correct_of(quote, typed),
              !.num_chars_typed = Len(typed),
              !.current_quote = current_quote,
              !.elapsed_time = elapsed_time]

----------------------------------------------------------------------------
(* TypingState, src/src/typing.rs.  self is the record of its fields. *)

Self ==
    [session_type |-> session_type, quote_num |-> quote_num,
     quote_chars |-> quote_chars, typed_chars |-> typed_chars,
     control_flow |-> control_flow, stats |-> stats]

\* TypingState::new
TypingState_new(st, quote) ==
    [session_type |-> st, quote_num |-> 1, quote_chars |-> quote,
     typed_chars |-> <<>>, control_flow |-> "Normal", stats |-> Stats_new(st)]

\* is_finished with the time limit compared by > instead of >=.
is_finished_late(self, elapsed) ==
    IF self.session_type.kind = "Time"
    THEN elapsed \div TicksPerSec > self.session_type.x
    ELSE Len(self.typed_chars) = Len(self.quote_chars)

\* TypingState::is_finished; elapsed().as_secs() is the whole seconds.
is_finished(self, elapsed) ==
    IF self.session_type.kind = "Time"
    THEN elapsed \div TicksPerSec >= self.session_type.x
    ELSE Len(self.typed_chars) = Len(self.quote_chars)

\* The match of requests_quote; elapsed().as_secs_f32() < x as f32.
does_request(self, elapsed) ==
    CASE self.session_type.kind = "SingleQuote" -> FALSE
      [] self.session_type.kind = "MultiQuote" -> self.quote_num < self.session_type.x
      [] self.session_type.kind = "Zen" -> TRUE
      [] self.session_type.kind = "Time" -> elapsed < self.session_type.x * TicksPerSec

\* quote_chars.len() - typed_chars.len() on usize goes below zero.
sub_overflows(self) == Len(self.typed_chars) > Len(self.quote_chars)

\* TypingState::requests_quote when the subtraction does not panic.  When
\* it overflows and wraps, chars_left is 2^64 - (typed - quote), which is
\* above CHARS_TILL_NEXT_QUOTE for every buffer that fits in memory.
requests_quote(self, elapsed) ==
    /\ does_request(self, elapsed)
    /\ ~sub_overflows(self)
    /\ Len(self.quote_chars) - Len(self.typed_chars) <= CHARS_TILL_NEXT_QUOTE

\* update_control_flow without the control_flow == Normal test: a text is
\* requested again while one is being waited for.
update_control_flow_unguarded(self, elapsed) ==
    LET s1 == IF self.control_flow \in {"Normal", "WaitingForQuote"}
                 /\ requests_quote(self, elapsed)
              THEN [self EXCEPT !.control_flow = "RequestsQuote"]
              ELSE self
    IN  IF is_finished(s1, elapsed)
        THEN [s1 EXCEPT !.control_flow = "Finished"]
        ELSE s1

\* TypingState::update_control_flow
update_control_flow(self, elapsed) ==
    LET s1 == IF self.control_flow = "Normal" /\ requests_quote(self, elapsed)
              THEN [self EXCEPT !.control_flow = "RequestsQuote"]
              ELSE self
    IN  IF is_finished(s1, elapsed)
        THEN [s1 EXCEPT !.control_flow = "Finished"]
        ELSE s1

\* The match on key_event.code with a backspace that removes nothing.
key_applied_no_pop(self, key) ==
    CASE key.code = "Char" /\ key.ch = "c" /\ key.ctrl ->
            [self EXCEPT !.control_flow = "Exit"]
      [] key.code = "Char" /\ ~(key.ch = "c" /\ key.ctrl) ->
            [self EXCEPT !.typed_chars = Append(@, key.ch)]
      [] OTHER -> self

\* The match on key_event.code in on_key_event.
key_applied(self, key) ==
    CASE key.code = "Char" /\ key.ch = "c" /\ key.ctrl ->
            [self EXCEPT !.control_flow = "Exit"]
      [] key.code = "Char" /\ ~(key.ch = "c" /\ key.ctrl) ->
            [self EXCEPT !.typed_chars = Append(@, key.ch)]
      [] key.code = "Backspace" ->
            [self EXCEPT !.typed_chars =
                IF Len(@) = 0 THEN @ ELSE SubSeq(@, 1, Len(@) - 1)]
      [] OTHER -> self

\* on_key_event up to the call of update_control_flow: the key is applied
\* and the statistics are updated.
key_handled(self, key, elapsed) ==
    LET s == key_applied(self, key)
    IN  [s EXCEPT !.stats = Stats_update(@, s.quote_chars, s.typed_chars,
                                         s.quote_num, elapsed)]

\* on_key_event panics: requests_quote is evaluated (control flow Normal)
\* on an overflowing subtraction in a build with overflow checks.
on_key_event_panics(self, key, elapsed, overflow_checks) ==
    /\ key.kind # "Release"
    /\ overflow_checks
    /\ key_handled(self, key, elapsed).control_flow = "Normal"
    /\ sub_overflows(key_handled(self, key, elapsed))

\* TypingState::on_key_event; the value returned is the control_flow of the result.
on_key_event(self, key, elapsed) ==
    IF key.kind = "Release"
    THEN self
    ELSE update_control_flow(key_handled(self, key, elapsed), elapsed)

\* TypingState::add_quote
add_quote(self, quote) ==
    [self EXCEPT !.control_flow = "Normal",
                 !.quote_num = @ + 1,
                 !.quote_chars = @ \o <<" ">> \o quote]

\* getting_next_quote that leaves the control flow as it is.
getting_next_quote_nop(self) == self

\* TypingState::getting_next_quote
getting_next_quote(self) == [self EXCEPT !.control_flow = "WaitingForQuote"]

----------------------------------------------------------------------------
(* The terminal and the fetch tasks *)

\* What write_to_terminal is given, the buffers and the statistics, and the
\* terminal size its Cursor::new reads.
Painted(self) ==
    [view |-> "typing", quote_chars |-> self.quote_chars,
     typed_chars |-> self.typed_chars, stats |-> self.stats, size |-> term_size]

\* clear_screen_and_print(out, &state.stats.analysis_str(..), true)
Report(self) ==
    [view |-> "report", quote_chars |-> <<>>, typed_chars |-> <<>>,
     stats |-> self.stats, size |-> term_size]

\* write_to_terminal slices &quote_chars[typed_chars.len()..]: a start past
\* the end of the slice panics.
write_to_terminal_panics(self) == Len(self.typed_chars) > Len(self.quote_chars)

\* A task made by tokio::spawn(get_quote()).
Running == [status |-> "running", quote |-> <<>>]
Fetched(q) == [status |-> "ok", quote |-> q]
FetchError == [status |-> "err", quote |-> <<>>]
Joined == [status |-> "joined", quote |-> <<>>]

\* The fetch tasks that were spawned and not yet awaited and consumed.
Outstanding == {i \in 1..Len(tasks) : tasks[i].status # "joined"}

\* The process has ended: exit(130), an Err returned by main, or a panic.
Dead == pc \in {"exited", "failed", "panicked"}

----------------------------------------------------------------------------
(* The driver, typing_session in src/src/typing.rs *)

\* The fields of the TypingState become those of self.
Store(self) ==
    /\ session_type' = self.session_type
    /\ quote_num' = self.quote_num
    /\ quote_chars' = self.quote_chars
    /\ typed_chars' = self.typed_chars
    /\ control_flow' = self.control_flow
    /\ stats' = self.stats

\* state.print_to_terminal()? at the end of a loop iteration, then back to read().
print_to_terminal(self) ==
    IF write_to_terminal_panics(self)
    THEN pc' = "panicked" /\ UNCHANGED screen
    ELSE pc' = "read" /\ screen' = Painted(self)

\* ControlFlow::Normal => ()
normal_arm(self) ==
    /\ Store(self)
    /\ print_to_terminal(self)
    /\ UNCHANGED <<next_quote, future_quote, tasks, raw_mode, alt_screen>>

\* ControlFlow::RequestsQuote => next_quote = Some(tokio::spawn(get_quote()));
\* state.getting_next_quote().  A handle already in next_quote is dropped
\* and its task goes on running.
requests_quote_arm(self) ==
    /\ tasks' = Append(tasks, Running)
    /\ next_quote' = Len(tasks) + 1
    /\ Store(getting_next_quote(self))
    /\ print_to_terminal(getting_next_quote(self))
    /\ UNCHANGED <<future_quote, raw_mode, alt_screen>>

\* future_quote.await?? on handle h: the task has resolved with a quote
\* (add_quote, then the repaint), or with an error (typing_session returns
\* the Err, and main returns it with its own ?).
await_done(self, h) ==
    /\ tasks[h].status \in {"ok", "err"}
    /\ tasks' = [tasks EXCEPT ![h] = Joined]
    /\ future_quote' = 0
    /\ IF tasks[h].status = "ok"
       THEN /\ Store(add_quote(self, tasks[h].quote))
            /\ print_to_terminal(add_quote(self, tasks[h].quote))
       ELSE /\ Store(self)
            /\ pc' = "failed"
            /\ UNCHANGED screen
    /\ UNCHANGED <<raw_mode, alt_screen>>

\* future_quote.await on handle h whose task has not resolved: the driver
\* is suspended in the await.
await_pending(self, h) ==
    /\ tasks[h].status = "running"
    /\ Store(self)
    /\ future_quote' = h
    /\ pc' = "await"
    /\ UNCHANGED <<tasks, screen, raw_mode, alt_screen>>

\* ControlFlow::WaitingForQuote => if let Some(future_quote) = next_quote.take()
waiting_arm(self) ==
    IF next_quote = 0
    THEN /\ Store(self)
         /\ print_to_terminal(self)
         /\ UNCHANGED <<next_quote, future_quote, tasks, raw_mode, alt_screen>>
    ELSE /\ next_quote' = 0
         /\ \/ await_done(self, next_quote)
            \/ await_pending(self, next_quote)

\* ControlFlow::Finished => break; then the report is printed.
finished_arm(self) ==
    /\ Store(self)
    /\ pc' = "report"
    /\ screen' = Report(self)
    /\ UNCHANGED <<next_quote, future_quote, tasks, raw_mode, alt_screen>>

\* terminate_session, src/src/lib.rs
terminate_session ==
    /\ raw_mode' = FALSE
    /\ alt_screen' = FALSE

\* ControlFlow::Exit => terminate_session(out)?; std::process::exit(130)
exit_arm(self) ==
    /\ Store(self)
    /\ terminate_session
    /\ pc' = "exited"
    /\ UNCHANGED <<next_quote, future_quote, tasks, screen>>

\* match state.on_key_event(key_event)? { ... }; state.print_to_terminal()?
dispatch(self) ==
    CASE self.control_flow = "Normal" -> normal_arm(self)
      [] self.control_flow = "RequestsQuote" -> requests_quote_arm(self)
      [] self.control_flow = "WaitingForQuote" -> waiting_arm(self)
      [] self.control_flow = "Finished" -> finished_arm(self)
      [] self.control_flow = "Exit" -> exit_arm(self)

\* One iteration of the loop of typing_session on a key event.
handle_key(key, overflow_checks) ==
    IF on_key_event_panics(Self, key, clock, overflow_checks)
    THEN /\ Store(key_handled(Self, key, clock))
         /\ pc' = "panicked"
         /\ ret' = "None"
         /\ UNCHANGED <<next_quote, future_quote, tasks, screen,
                        raw_mode, alt_screen>>
    ELSE /\ ret' = on_key_event(Self, key, clock).control_flow
         /\ dispatch(on_key_event(Self, key, clock))

\* read()? gives a key event and the loop body runs on it.  The two builds
\* (with and without overflow checks) are both possible.
ReadKey(key) ==
    /\ pc = "read"
    /\ quote_num <= MaxQuoteNum
    /\ key \in KeyEvents(keyboard)
    /\ \E overflow_checks \in BOOLEAN : handle_key(key, overflow_checks)
    /\ UNCHANGED <<clock, keyboard, provider, sizes, term_size>>

\* The driver resumes from future_quote.await once the task has resolved.
AwaitResume ==
    /\ pc = "await"
    /\ await_done(Self, future_quote)
    /\ UNCHANGED <<clock, next_quote, ret, keyboard, provider, sizes, term_size>>

\* After the loop: wait for the user to press enter, then return Ok(()).
ReportKey(key) ==
    /\ pc = "report"
    /\ key \in KeyEvents(keyboard)
    /\ pc' = IF key.code = "Enter" THEN "returned" ELSE "report"
    /\ UNCHANGED <<session_type, quote_num, quote_chars, typed_chars, control_flow,
                   stats, clock, next_quote, future_quote, tasks, ret, raw_mode,
                   alt_screen, screen, keyboard, provider, sizes,
                   term_size>>

\* get_quote, src/src/quote.rs, run as a spawned task: it resolves with a
\* quote of the provider.
FetchOk(i, q) ==
    /\ ~Dead
    /\ i \in 1..Len(tasks)
    /\ tasks[i].status = "running"
    /\ q \in provider
    /\ tasks' = [tasks EXCEPT ![i] = Fetched(q)]
    /\ UNCHANGED <<session_type, quote_num, quote_chars, typed_chars, control_flow,
                   stats, clock, next_quote, future_quote, pc, ret, raw_mode,
                   alt_screen, screen, keyboard, provider, sizes,
                   term_size>>

\* get_quote resolves with a reqwest::Error.
FetchErr(i) ==
    /\ ~Dead
    /\ i \in 1..Len(tasks)
    /\ tasks[i].status = "running"
    /\ tasks' = [tasks EXCEPT ![i] = FetchError]
    /\ UNCHANGED <<session_type, quote_num, quote_chars, typed_chars, control_flow,
                   stats, clock, next_quote, future_quote, pc, ret, raw_mode,
                   alt_screen, screen, keyboard, provider, sizes,
                   term_size>>

\* Time passes while the session runs (start_time.elapsed() grows).
Tick ==
    /\ pc \in {"read", "await"}
    /\ clock < MaxClock
    /\ clock' = clock + 1
    /\ UNCHANGED <<session_type, quote_num, quote_chars, typed_chars, control_flow,
                   stats, next_quote, future_quote, tasks, pc, ret, raw_mode,
                   alt_screen, screen, keyboard, provider, sizes,
                   term_size>>

\* read()? gives Event::Resize: `_ => continue` in the loop of
\* typing_session, `_ => ()` in the loop that waits for enter.
Resize(size) ==
    /\ pc \in {"read", "report"}
    /\ size \in sizes
    /\ size # term_size
    /\ term_size' = size
    /\ UNCHANGED <<session_type, quote_num, quote_chars, typed_chars, control_flow,
                   stats, clock, next_quote, future_quote, tasks, pc, ret, raw_mode,
                   alt_screen, screen, keyboard, provider, sizes>>

----------------------------------------------------------------------------
(* Cursor, src/src/lib.rs *)

\* (num_cols, num_rows) as terminal::size() gives them.
TermSizes == {<<10, 6>>, <<3, 2>>, <<2, 5>>, <<1, 1>>}

\* Cursor::new: the position and the size of the terminal.
Cursor_new(col, row, size) ==
    [col |-> col, row |-> row, num_cols |-> size[1], num_rows |-> size[2]]

\* Cursor::align_center, the cursor it leaves in self.
align_center(self, num_chars) ==
    LET cursor_col == (num_chars % U16) % self.num_cols
        cursor_row == (num_chars % U16) \div self.num_cols
    IN  [self EXCEPT !.col = cursor_col,
                     !.row = IF cursor_row > self.num_rows \div 2
                             THEN self.num_rows \div 2
                             ELSE cursor_row]

\* Cursor::cursor_back_one returns Ok(()).
cursor_back_one_ok(self) == ~(self.col = 0 /\ self.row = 0)

\* cursor_back_one that wraps to the last column and stays on its row.
cursor_back_one_same_row(self) ==
    IF self.col = 0 /\ self.row = 0
    THEN self
    ELSE IF self.col = 0
         THEN [self EXCEPT !.col = self.num_cols - 1]
         ELSE [self EXCEPT !.col = @ - 1]

\* Cursor::cursor_back_one, the cursor it leaves in self.
cursor_back_one(self) ==
    IF self.col = 0 /\ self.row = 0
    THEN self
    ELSE IF self.col = 0
         THEN [self EXCEPT !.row = @ - 1, !.col = self.num_cols - 1]
         ELSE [self EXCEPT !.col = @ - 1]

\* Cursor::cursor_forward_one returns Ok(()).
cursor_forward_one_ok(self) ==
    ~(self.col = self.num_cols - 1 /\ self.row = self.num_rows - 1)

\* Cursor::cursor_forward_one, the cursor it leaves in self.
cursor_forward_one(self) ==
    IF self.col = self.num_cols - 1 /\ self.row = self.num_rows - 1
    THEN self
    ELSE IF self.col = self.num_cols - 1
         THEN [self EXCEPT !.row = @ + 1, !.col = 0]
         ELSE [self EXCEPT !.col = @ + 1]

NoCall == [op |-> "none", arg |-> 0, ok |-> TRUE, before |-> Cursor_new(0, 0, <<1, 1>>)]

\* A cursor somewhere inside the grid of a terminal.
CursorInit ==
    \E size \in TermSizes :
      \E col \in 0..(size[1] - 1), row \in 0..(size[2] - 1) :
        /\ cursor = Cursor_new(col, row, size)
        /\ origin = Cursor_new(col, row, size)
        /\ nfwd = 0
        /\ nback = 0
        /\ failed = FALSE
        /\ last_call = NoCall

\* cursor.align_center(out, num_chars); single steps start anew from there.
AlignCenter(num_chars) ==
    /\ cursor' = align_center(cursor, num_chars)
    /\ origin' = align_center(cursor, num_chars)
    /\ nfwd' = 0
    /\ nback' = 0
    /\ failed' = FALSE
    /\ last_call' = [op |-> "align", arg |-> num_chars, ok |-> TRUE, before |-> cursor]

\* cursor.cursor_forward_one(), before any step back.
CursorForward ==
    /\ nback = 0
    /\ nfwd < MaxSteps
    /\ cursor' = cursor_forward_one(cursor)
    /\ nfwd' = nfwd + 1
    /\ failed' = (failed \/ ~cursor_forward_one_ok(cursor))
    /\ last_call' = [op |-> "forward", arg |-> 0, ok |-> cursor_forward_one_ok(cursor),
                     before |-> cursor]
    /\ UNCHANGED <<origin, nback>>

\* cursor.cursor_back_one(), at most as often as forward.
CursorBack ==
    /\ nback < nfwd
    /\ cursor' = cursor_back_one(cursor)
    /\ nback' = nback + 1
    /\ failed' = (failed \/ ~cursor_back_one_ok(cursor))
    /\ last_call' = [op |-> "back", arg |-> 0, ok |-> cursor_back_one_ok(cursor),
                     before |-> cursor]
    /\ UNCHANGED <<origin, nfwd>>

\* The character counts align_center is tried on.
Counts == (0..MaxChars) \cup {U16 + n : n \in 0..MaxChars}

----------------------------------------------------------------------------
(* The user and the provider: what is typed on and what is fetched. *)

\* The short texts are typed on a keyboard with wrong keys on it; the
\* sessions that fetch more texts are typed on a one-key keyboard, over
\* texts with and without a character that key cannot match.  A Zen
\* session is typed with the f key (alone and with Ctrl), and a timed
\* session with the f key and the space bar, which types the separator
\* that add_quote puts before a fetched text.  The terminal is resized
\* during the sessions on the short text.
Scenarios ==
    { [keyboard |-> {"c", "a", "t", "x"},
       session_types |-> {SingleQuote},
       first |-> {<<"c", "a", "t">>},
       provider |-> {<<>>},
       sizes |-> {<<10, 6>>, <<3, 2>>}],
      [keyboard |-> {"a"},
       session_types |-> SessionTypes,
       first |-> {<<>>, <<"a">>, <<"a", "b">>, Repeated("a", LongLen)},
       provider |-> {<<>>, <<"b">>},
       sizes |-> {<<10, 6>>}],
      [keyboard |-> {"f"},
       session_types |-> {Zen},
       first |-> {<<"f", "f", "f">>},
       provider |-> {<<"f">>},
       sizes |-> {<<10, 6>>}],
      [keyboard |-> {"f", " "},
       session_types |-> {Time(1)},
       first |-> {<<"f">>},
       provider |-> {<<"f">>},
       sizes |-> {<<10, 6>>}] }

\* main: initialize_session (alternate screen, raw mode), then
\* typing_session up to its loop: the first quote is fetched, the
\* TypingState is made and painted, next_quote = None.
SessionStart(kb, texts, szs, size, st, q) ==
        /\ keyboard = kb
        /\ provider = texts
        /\ sizes = szs
        /\ term_size = size
        /\ session_type = st
        /\ quote_num = TypingState_new(st, q).quote_num
        /\ quote_chars = TypingState_new(st, q).quote_chars
        /\ typed_chars = TypingState_new(st, q).typed_chars
        /\ control_flow = TypingState_new(st, q).control_flow
        /\ stats = TypingState_new(st, q).stats
        /\ clock = 0
        /\ next_quote = 0
        /\ future_quote = 0
        /\ tasks = <<>>
        /\ pc = "read"
        /\ ret = "None"
        /\ raw_mode = TRUE
        /\ alt_screen = TRUE
        /\ screen = Painted(TypingState_new(st, q))

SessionInit ==
    \E sc \in Scenarios :
      \E st \in sc.session_types, q \in sc.first, size \in sc.sizes :
        SessionStart(sc.keyboard, sc.provider, sc.sizes, size, st, q)

\* No Cursor is stepped on its own.
CursorIdle ==
    /\ cursor = Cursor_new(0, 0, <<1, 1>>)
    /\ origin = Cursor_new(0, 0, <<1, 1>>)
    /\ nfwd = 0
    /\ nback = 0
    /\ failed = FALSE
    /\ last_call = NoCall

Init == SessionInit /\ CursorIdle

Next ==
    \/ \E key \in KeyEvents(keyboard) : ReadKey(key) /\ UNCHANGED cvars
    \/ AwaitResume /\ UNCHANGED cvars
    \/ \E key \in KeyEvents(keyboard) : ReportKey(key) /\ UNCHANGED cvars
    \/ \E i \in 1..Len(tasks) : \E q \in provider : FetchOk(i, q) /\ UNCHANGED cvars
    \/ \E i \in 1..Len(tasks) : FetchErr(i) /\ UNCHANGED cvars
    \/ Tick /\ UNCHANGED cvars
    \/ \E size \in sizes : Resize(size) /\ UNCHANGED cvars

Spec == Init /\ [][Next]_vars

\* The tokio runtime runs a spawned get_quote to its end and resumes the
\* driver from an await whose task has resolved, and time passes; nothing
\* obliges the user to press a key or to resize the terminal.
SpecFair ==
    /\ Spec
    /\ WF_vars(AwaitResume /\ UNCHANGED cvars)
    /\ WF_vars(\E i \in 1..Len(tasks) : \E q \in provider : FetchOk(i, q) /\ UNCHANGED cvars)
    /\ WF_vars(\E i \in 1..Len(tasks) : FetchErr(i) /\ UNCHANGED cvars)
    /\ WF_vars(Tick /\ UNCHANGED cvars)

\* The Cursor methods on their own, on every cursor inside a grid.
CursorNext ==
    \/ \E num_chars \in Counts : AlignCenter(num_chars) /\ UNCHANGED svars
    \/ CursorForward /\ UNCHANGED svars
    \/ CursorBack /\ UNCHANGED svars

\* A cursor inside a grid, beside a session that is not run.
InitCursor ==
    /\ CursorInit
    /\ SessionStart({"c", "a", "t", "x"}, {<<>>}, {<<10, 6>>}, <<10, 6>>, SingleQuote,
                    <<"c", "a", "t">>)

SpecCursor == InitCursor /\ [][CursorNext]_vars

----------------------------------------------------------------------------
(* Properties *)

Presses == {key \in KeyEvents(keyboard) : key.kind # "Release"}
Releases == {key \in KeyEvents(keyboard) : key.kind = "Release"}
CharAndBackspacePresses ==
    {key \in Presses : key.code \in {"Char", "Backspace"} /\ ~key.ctrl}

\* C1: under MultiQuote(n) the session is Finished only after n-1 further
\* fetches were dispatched, all n texts are in the target buffer and the
\* typed length equals the target length.
C1_MultiQuoteFinishesAfterAllTexts ==
    (session_type.kind = "MultiQuote" /\ control_flow = "Finished") =>
        /\ Len(tasks) = session_type.x - 1
        /\ quote_num = session_type.x
        /\ Len(typed_chars) = Len(quote_chars)

\* C2: a Ctrl-C key press makes on_key_event return Exit, whatever the
\* typed length, the target length and the elapsed time are.
C2_CtrlCReturnsExit ==
    [][\A kind \in {"Press", "Repeat"} :
          ReadKey(CtrlC(kind)) => ret' = "Exit"]_vars

\* C3: while a dispatched fetch has not resolved the driver is not
\* suspended on it: it is at read(), ready to handle the next key press.
C3_InputNotBlockedByFetch ==
    \A i \in Outstanding : tasks[i].status = "running" => pc # "await"

\* C4: at most one fetch task is outstanding; a fetch is spawned only when
\* on_key_event returned RequestsQuote, and then no handle is stored and no
\* earlier fetch is outstanding.
C4_AtMostOneFetch ==
    /\ [](Cardinality(Outstanding) <= 1)
    /\ [][Len(tasks') > Len(tasks) =>
            /\ ret' = "RequestsQuote"
            /\ next_quote = 0
            /\ Outstanding = {}
            /\ Len(tasks') = Len(tasks) + 1]_vars

\* C4 witness: a second fetch is in flight after the first one was consumed.
C4_Witness ==
    /\ Len(tasks) = 2
    /\ tasks[1].status = "joined"
    /\ tasks[2].status = "running"
    /\ next_quote = 2
    /\ control_flow = "WaitingForQuote"

\* C5: a key press returns RequestsQuote exactly when, after the key, the
\* control flow is Normal, the policy wants more text and at most
\* CHARS_TILL_NEXT_QUOTE characters of the target are untyped.
C5_RequestsExactlyAtThreshold ==
    [][(pc = "read" /\ clock' = clock /\ ret' # "None") =>
          \A key \in Presses :
           ReadKey(key) =>
             (ret' = "RequestsQuote" <=>
                /\ key_handled(Self, key, clock).control_flow = "Normal"
                /\ does_request(Self, clock)
                /\ Len(quote_chars) - Len(typed_chars') <= CHARS_TILL_NEXT_QUOTE)]_vars

\* C6: the typed buffer is never longer than the target buffer.
C6_TypedWithinTarget == Len(typed_chars) <= Len(quote_chars)

\* C7: no run ends with a fetch error while the terminal is still in raw
\* mode or on the alternate screen.
C7_TerminalRestoredOnFetchError ==
    pc = "failed" => (~raw_mode /\ ~alt_screen)

C9_SingleQuoteFinishesAtLength ==
    (session_type.kind = "SingleQuote" /\ Len(quote_chars) >= 1) =>
        /\ tasks = <<>>
        /\ pc = "read" =>
            \A key \in CharAndBackspacePresses :
                LET s == on_key_event(Self, key, clock)
                IN  /\ s.typed_chars = IF key.code = "Char"
                                       THEN Append(typed_chars, key.ch)
                                       ELSE SubSeq(typed_chars, 1, Len(typed_chars) - 1)
                    /\ Len(s.typed_chars) <= Len(quote_chars)
                    /\ s.control_flow = IF Len(s.typed_chars) = Len(quote_chars)
                                        THEN "Finished" ELSE "Normal"
                    /\ ~on_key_event_panics(Self, key, clock, TRUE)
                    /\ (quote_chars = <<"c", "a", "t">> /\ s.typed_chars = <<"c", "a", "t">>)
                           => (s.control_flow = "Finished" /\ s.stats.num_correct = 3)

\* C9 witness: "cat" was typed in full and the session finished.
C9_Witness ==
    /\ session_type.kind = "SingleQuote"
    /\ quote_chars = <<"c", "a", "t">>
    /\ typed_chars = <<"c", "a", "t">>
    /\ ret = "Finished"
    /\ pc = "report"
    /\ stats.num_correct = 3
    /\ tasks = <<>>

\* C10: handling a key-release event changes neither the typed buffer, the
\* target buffer, the text index, the statistics nor the control flow.
C10_ReleaseChangesNothing ==
    [][pc = "read" =>
          \A key \in Releases :
          ReadKey(key) =>
             UNCHANGED <<typed_chars, quote_chars, quote_num, stats, control_flow>>]_vars

\* C11: align_center puts the cursor at (count mod width, min(count div
\* width, height div 2)) for every count, also one that does not fit in 16
\* bits, and every width > 0.
C11_AlignCenterPlacement ==
    last_call.op = "align" =>
        /\ cursor.col = last_call.arg % cursor.num_cols
        /\ cursor.row = Min(last_call.arg \div cursor.num_cols, cursor.num_rows \div 2)

\* C12: every single step leaves the cursor inside the grid; a step returns
\* Err(()) exactly when it would leave the grid past the last cell (forward)
\* or the first cell (back), and then leaves the cursor where it was; and
\* after k steps forward
\* and k steps back, none of which returned an error, the cursor is back at
\* the column and row it started from.
C12_StepsRoundTrip ==
    /\ cursor.col < cursor.num_cols
    /\ cursor.row <= cursor.num_rows - 1
    /\ (last_call.op \in {"forward", "back"} /\ ~last_call.ok) => cursor = last_call.before
    /\ last_call.op = "forward" =>
           (~last_call.ok <=> (/\ last_call.before.col = cursor.num_cols - 1
                               /\ last_call.before.row = cursor.num_rows - 1))
    /\ last_call.op = "back" =>
           (~last_call.ok <=> (last_call.before.col = 0 /\ last_call.before.row = 0))
    /\ (~failed /\ nback = nfwd) => cursor = origin

\* C12 witness: a round trip of MaxSteps steps each way that crossed a row
\* boundary and came back.
C12_Witness ==
    /\ ~failed
    /\ nfwd = MaxSteps
    /\ nback = nfwd
    /\ cursor = origin
    /\ last_call.op = "back"
    /\ last_call.before.col = 0
    /\ last_call.before.row > 0

\* C13: after every key event num_correct is the number of positions at
\* which the typed and the target buffer agree, it is at most the typed
\* length and the target length, and the next character key does not lower
\* it and the next backspace does not raise it.
C13_NumCorrectCountsAgreement ==
    (pc \in {"read", "report"} /\ ret # "None") =>
        /\ stats.num_correct = num_correct_of(quote_chars, typed_chars)
        /\ stats.num_correct <= Min(stats.num_chars_typed, Len(quote_chars))
        /\ pc = "read" =>
            \A key \in CharAndBackspacePresses :
                ~on_key_event_panics(Self, key, clock, TRUE) =>
                    LET s == on_key_event(Self, key, clock)
                    IN  /\ key.code = "Char" => s.stats.num_correct >= stats.num_correct
                        /\ key.code = "Backspace" => s.stats.num_correct <= stats.num_correct

\* C14: no status line and no report is made from statistics whose elapsed
\* time is 0: Display and analysis_str divide 60 * num_correct by it as it
\* is.  (The elapsed_time 0 of the initial state is the 0.0 of Stats::new.)
C14_NoRateOverZeroElapsed == screen.stats.elapsed_time # 0

\* C15: a press of the Enter key appends one character to the typed buffer.
C15_EnterAppendsLineBreak ==
    [][pc = "read" =>
          \A kind \in {"Press", "Repeat"} :
            ReadKey(KeyEvent(kind, "Enter", "", FALSE)) =>
                /\ Len(typed_chars') = Len(typed_chars) + 1
                /\ SubSeq(typed_chars', 1, Len(typed_chars)) = typed_chars]_vars

\* C16: under Zen a press of Ctrl-F returns Finished, shows the report and
\* leaves the typed buffer as it was, and no other key press returns Finished.
C16_ZenFinishesOnlyOnCtrlF ==
    [][(session_type.kind = "Zen" /\ pc = "read") =>
          \A key \in Presses :
            ReadKey(key) =>
                IF key = CtrlF(key.kind)
                THEN ret' = "Finished" /\ pc' = "report" /\ typed_chars' = typed_chars
                ELSE ret' # "Finished"]_vars

\* C17: a resize event changes neither the control flow, the buffers nor
\* the text index, and when the driver reads the next event the screen has
\* been painted for the new size.
C17_ResizeRedraws ==
    [][\A size \in sizes :
          Resize(size) =>
            /\ UNCHANGED <<control_flow, typed_chars, quote_chars, quote_num>>
            /\ (pc' = "read" => screen'.size = term_size')]_vars

\* C18: the control flow changes only to Finished or Exit, from Normal to
\* WaitingForQuote in the step in which on_key_event returned RequestsQuote
\* and the driver spawned the fetch, and from WaitingForQuote to Normal in
\* the step in which add_quote took the fetched text; RequestsQuote is
\* returned only from Normal; and once the control flow is Finished or
\* Exit the driver is past its loop and the session state stays as it is.
C18_ControlFlowCycle ==
    /\ [](control_flow \in {"Normal", "WaitingForQuote", "Finished", "Exit"})
    /\ [](control_flow \in {"Finished", "Exit"} => pc \in {"report", "returned", "exited"})
    /\ [](ret \in {"Finished", "Exit"} => control_flow = ret)
    /\ [][control_flow' # control_flow =>
            \/ control_flow' \in {"Finished", "Exit"}
            \/ /\ control_flow = "Normal"
               /\ control_flow' = "WaitingForQuote"
               /\ ret' = "RequestsQuote"
               /\ Len(tasks') = Len(tasks) + 1
               /\ next_quote' = Len(tasks')
            \/ /\ control_flow = "WaitingForQuote"
               /\ control_flow' = "Normal"
               /\ quote_num' = quote_num + 1
               /\ \E i \in 1..Len(tasks) :
                     /\ tasks[i].status = "ok"
                     /\ tasks'[i].status = "joined"
                     /\ quote_chars' = quote_chars \o <<" ">> \o tasks[i].quote]_vars
    /\ [][Len(tasks') > Len(tasks) =>
            (control_flow = "Normal" /\ control_flow' = "WaitingForQuote")]_vars
    /\ [][(control_flow \in {"Finished", "Exit"}) =>
            UNCHANGED <<control_flow, typed_chars, quote_chars, quote_num, stats, ret>>]_vars

\* C18 witness: the cycle was gone through once, a fetched text was added
\* and the control flow is Normal again.
C18_Witness ==
    /\ pc = "read"
    /\ control_flow = "Normal"
    /\ quote_num = 2
    /\ Len(tasks) = 1
    /\ tasks[1].status = "joined"
    /\ ret = "WaitingForQuote"

\* A spawned fetch has resolved with a text that add_quote has not taken.
Resolved == \E i \in 1..Len(tasks) : tasks[i].status = "ok"

\* C19: once a fetch has resolved with a text, the session comes to take
\* it (add_quote appends it and the control flow is Normal), or has ended,
\* whether or not another key event arrives.
C19_ResolvedFetchIsAdded ==
    Resolved ~> (~Resolved \/ pc \notin {"read", "await"})

\* C20: whenever the status line has been painted and the driver reads the
\* next event, the statistics painted give the typed length and the text
\* index of the session.
C20_StatsMatchSession ==
    (pc = "read" /\ screen.view = "typing") =>
        /\ screen.stats = stats
        /\ stats.num_chars_typed = Len(typed_chars)
        /\ stats.current_quote = quote_num

====
